---- MODULE Spec2Model ----
(***************************************************************************)
(* Model of sofifa-scraper-fc25-merger.pyw: the DataManager (read,         *)
(* merge_all, save, add_file, extract_team_name) and the MergerGUI         *)
(* handlers that drive it (choose_file, choose_output, update_status,      *)
(* preview_merge, start_merge, _do_merge on its worker thread, reset_all). *)
(*                                                                         *)
(* Python strings are sequences of one-character strings, so that          *)
(* startswith, replace, split, strip and join are computed as the code     *)
(* computes them.  A DataFrame is a record [cols, rows]: cols the column   *)
(* labels in order, rows the rows in order, each a sequence of cells.  A   *)
(* cell is [t, s]: t its type ("int", "str" or "null"), s its text.        *)
(***************************************************************************)
EXTENDS Integers, Sequences, FiniteSets, Bags, TLC

(* ------------------------------ bounds --------------------------------- *)
MaxEntries == 3      \* add_file is not offered once the registry holds this many
MaxMerges  == 1      \* clicks on START MERGE in one run
MaxRows    == 2      \* rows of the tables drawn for merge_all and the .txt writer

(* --------------------------- program constants ------------------------- *)
MAX_FILES    == 2
REQUIRED_COL == <<"I", "D">>
HEAD_ROWS    == 5

(* ------------------------------ strings -------------------------------- *)
RECURSIVE StartsWith(_, _)
StartsWith(s, p) ==
  IF p = <<>> THEN TRUE
  ELSE IF s = <<>> THEN FALSE
  ELSE Head(s) = Head(p) /\ StartsWith(Tail(s), Tail(p))

Drop(s, n) == SubSeq(s, n + 1, Len(s))

\* str.replace(old, ""): every non-overlapping occurrence, left to right
RECURSIVE RemoveAll(_, _)
RemoveAll(s, old) ==
  IF s = <<>> THEN <<>>
  ELSE IF StartsWith(s, old) THEN RemoveAll(Drop(s, Len(old)), old)
  ELSE <<Head(s)>> \o RemoveAll(Tail(s), old)

\* str.split(sep) for a one-character sep: the fields in order
RECURSIVE Split(_, _)
Split(s, sep) ==
  IF \A i \in 1..Len(s) : s[i] # sep THEN <<s>>
  ELSE LET k == CHOOSE i \in 1..Len(s) : s[i] = sep /\ \A j \in 1..(i - 1) : s[j] # sep
       IN  <<SubSeq(s, 1, k - 1)>> \o Split(Drop(s, k), sep)

IsSpace(c) == c = " "

RECURSIVE LStrip(_)
LStrip(s) == IF s # <<>> /\ IsSpace(Head(s)) THEN LStrip(Tail(s)) ELSE s

RECURSIVE RStrip(_)
RStrip(s) ==
  IF s # <<>> /\ IsSpace(s[Len(s)]) THEN RStrip(SubSeq(s, 1, Len(s) - 1)) ELSE s

Strip(s) == LStrip(RStrip(s))

\* sep.join(parts)
RECURSIVE Join(_, _)
Join(parts, sep) ==
  IF parts = <<>> THEN <<>>
  ELSE IF Len(parts) = 1 THEN parts[1]
  ELSE parts[1] \o sep \o Join(Tail(parts), sep)

LowerChar(c) ==
  CASE c = "A" -> "a" [] c = "B" -> "b" [] c = "C" -> "c" [] c = "D" -> "d"
    [] c = "I" -> "i" [] c = "J" -> "j" [] c = "N" -> "n" [] c = "O" -> "o"
    [] c = "P" -> "p" [] c = "R" -> "r" [] c = "S" -> "s" [] c = "T" -> "t"
    [] c = "X" -> "x" [] OTHER -> c

Lower(s) == [i \in 1..Len(s) |-> LowerChar(s[i])]

\* index of the last occurrence of c in s, 0 when there is none
LastIndex(s, c) ==
  IF \A i \in 1..Len(s) : s[i] # c THEN 0
  ELSE CHOOSE i \in 1..Len(s) : s[i] = c /\ \A j \in (i + 1)..Len(s) : s[j] # c

\* os.path.basename
Basename(path) == Drop(path, LastIndex(path, "/"))

\* os.path.splitext: <<root, ext>>; the extension starts at the last dot of
\* the last path component, unless only dots precede it in that component
SplitExt(path) ==
  LET sep == LastIndex(path, "/")
      dot == LastIndex(path, ".")
  IN  IF dot > sep /\ \E i \in (sep + 1)..(dot - 1) : path[i] # "."
      THEN <<SubSeq(path, 1, dot - 1), Drop(path, dot - 1)>>
      ELSE <<path, <<>>>>

SCRIPT_1 == <<"S", "C", "R", "I", "P", "T", "_", "1", "_">>

extract_team_name(path) ==
  LET base == Basename(path)
  IN  IF StartsWith(base, SCRIPT_1)
      THEN Split(RemoveAll(base, SCRIPT_1), ".")[1]
      ELSE SplitExt(base)[1]

(* ------------------------------ tables --------------------------------- *)
IntCell(digits) == [t |-> "int", s |-> digits]
StrCell(chars)  == [t |-> "str", s |-> chars]
NullCell        == [t |-> "null", s |-> <<>>]

NoDF == [cols |-> <<>>, rows |-> <<>>]

\* the outcome of a call: err is the exception raised ("" when it returned)
Ok(df)    == [err |-> "", df |-> df]
Raise(e)  == [err |-> e, df |-> NoDF]

Range(f) == {f[i] : i \in DOMAIN f}

\* position of the first column labelled c (0 when there is none)
IndexOf(cols, c) ==
  IF \A i \in 1..Len(cols) : cols[i] # c THEN 0
  ELSE CHOOSE i \in 1..Len(cols) : cols[i] = c /\ \A j \in 1..(i - 1) : cols[j] # c

Column(df, k) == [i \in 1..Len(df.rows) |-> df.rows[i][k]]

\* DataFrame.head(): the first five rows
DfHead(df) ==
  [cols |-> df.cols,
   rows |-> SubSeq(df.rows, 1, IF Len(df.rows) < HEAD_ROWS THEN Len(df.rows) ELSE HEAD_ROWS)]

\* the sequence s without its k-th element
Without(s, k) == SubSeq(s, 1, k - 1) \o SubSeq(s, k + 1, Len(s))

\* labels after the suffix is put on the ones of `overlap`
RECURSIVE Suffixed(_, _, _)
Suffixed(cols, overlap, suffix) ==
  IF cols = <<>> THEN <<>>
  ELSE <<IF Head(cols) \in overlap THEN Head(cols) \o suffix ELSE Head(cols)>>
         \o Suffixed(Tail(cols), overlap, suffix)

\* a label that the suffix made a duplicate of an earlier one
SuffixDups(old, new) ==
  \E j \in 1..Len(new) :
     /\ \E i \in 1..(j - 1) : new[i] = new[j]
     /\ ~ \E i \in 1..(j - 1) : old[i] = old[j]

\* how pandas sees the join key column k of the rows: "empty", "number",
\* "string" or "mixed"
KeyKind(rows, k) ==
  IF rows = <<>> THEN "empty"
  ELSE IF \A i \in 1..Len(rows) : rows[i][k].t = "str" THEN "string"
  ELSE IF \A i \in 1..Len(rows) : rows[i][k].t # "str" THEN "number"
  ELSE "mixed"

\* the joined rows of one left row: one per right row with its key, in the
\* order of the right table, each the left row followed by the right row's
\* other cells
RECURSIVE RowMatches(_, _, _, _)
RowMatches(lrow, rrows, lk, rk) ==
  IF rrows = <<>> THEN <<>>
  ELSE (IF Head(rrows)[rk] = lrow[lk] THEN <<lrow \o Without(Head(rrows), rk)>> ELSE <<>>)
       \o RowMatches(lrow, Tail(rrows), lk, rk)

\* the rows of the join, in the order of the left table; a left row without
\* a match is kept with nulls when how = "left"
RECURSIVE JoinRows(_, _, _, _, _, _)
JoinRows(lrows, rrows, lk, rk, nulls, how) ==
  IF lrows = <<>> THEN <<>>
  ELSE LET m == RowMatches(Head(lrows), rrows, lk, rk)
       IN  (IF m # <<>> THEN m
            ELSE IF how = "left" THEN <<Head(lrows) \o nulls>>
            ELSE <<>>)
           \o JoinRows(Tail(lrows), rrows, lk, rk, nulls, how)

\* the join once the key positions lk and rk and the suffixed labels lcols
\* and rcols are known: a numeric key column is not joined with a text one
\* (ValueError); suffixes that duplicate a label are refused (MergeError)
Joined(left, right, lk, rk, lcols, rcols, how) ==
  IF lk = 0 \/ rk = 0 THEN Raise("KeyError")
  ELSE IF {KeyKind(left.rows, lk), KeyKind(right.rows, rk)} = {"number", "string"}
    THEN Raise("ValueError")
  ELSE IF SuffixDups(left.cols, lcols) \/ SuffixDups(right.cols, rcols)
    THEN Raise("MergeError")
  ELSE Ok([cols |-> lcols \o Without(rcols, rk),
           rows |-> JoinRows(left.rows, right.rows, lk, rk,
                             SubSeq([i \in 1..Len(right.cols) |-> NullCell], 2, Len(right.cols)),
                             how)])

\* the labels both tables carry, the key apart
Overlap(left, right) == (Range(left.cols) \cap Range(right.cols)) \ {REQUIRED_COL}

\* left.merge(right, on="ID", how=how): the overlapping labels get the
\* suffixes _x (left) and _y (right)
MergeHow(left, right, how) ==
  Joined(left, right,
         IndexOf(left.cols, REQUIRED_COL), IndexOf(right.cols, REQUIRED_COL),
         Suffixed(left.cols, Overlap(left, right), <<"_", "x">>),
         Suffixed(right.cols, Overlap(left, right), <<"_", "y">>), how)

\* the join as how="inner" would compute it
MergeInner(left, right) == MergeHow(left, right, "inner")

\* line 108: merged.merge(df, on=self.REQUIRED_COL, how="left")
Merge(left, right) == MergeHow(left, right, "left")

\* the loop of merge_all (lines 107-108): acc is the outcome so far, rest
\* the tables still to join; an exception ends it
RECURSIVE MergeFold(_, _)
MergeFold(acc, rest) ==
  IF rest = <<>> \/ acc.err # "" THEN acc
  ELSE MergeFold(Merge(acc.df, Head(rest)), Tail(rest))

\* merge_all with its loop running over self.dfs instead of self.dfs[1:]
merge_all_from_first(frames) ==
  IF frames = <<>> THEN Raise("ValueError: No files to merge.")
  ELSE MergeFold(Ok(frames[1]), frames)

merge_all(frames) ==
  IF frames = <<>> THEN Raise("ValueError: No files to merge.")
  ELSE MergeFold(Ok(frames[1]), Tail(frames))

(* --------------------------- the .txt format --------------------------- *)
SEP == <<" ", "|", " ">>

\* str() of a cell value
Str(cell) == IF cell.t = "null" THEN <<"n", "a", "n">> ELSE cell.s

\* the lines save writes to the .txt file (without their newlines)
WriteTxt(df) ==
  <<Join(df.cols, SEP)>> \o
  [i \in 1..Len(df.rows) |-> Join([k \in 1..Len(df.rows[i]) |-> Str(df.rows[i][k])], SEP)]

IsDigit(c) == c \in {"0", "1", "2", "3", "4", "5", "6", "7", "8", "9"}

\* the parser's integer conversion skips blanks around the digits
IsInt(field) ==
  LET w == Strip(field) IN w # <<>> /\ \A i \in 1..Len(w) : IsDigit(w[i])

\* read() of a .txt file holding `lines` (lines 83-86): the header line is
\* stripped, split on "|" and each name stripped; read_csv skips that line,
\* splits every other line on "|" and keeps the fields as they are (blanks
\* included).  A column whose fields are all integers becomes numeric, any
\* other column keeps its fields as text.  When the lines hold more fields
\* than there are names, the leading fields become the index; a line with
\* fewer fields is padded with nulls.
ReadTxt(lines) ==
  IF lines = <<>> THEN Raise("ValueError: File empty or unreadable.")
  ELSE
  LET header == Strip(lines[1])
      hs     == Split(header, "|")
      cols   == [i \in 1..Len(hs) |-> Strip(hs[i])]
      data   == Tail(lines)
      fields == [i \in 1..Len(data) |-> Split(data[i], "|")]
      width  == IF data = <<>> THEN Len(cols) ELSE Len(fields[1])
      lead   == IF width > Len(cols) THEN width - Len(cols) ELSE 0
      Has(i, k)  == lead + k <= Len(fields[i])
      Numeric(k) == \A i \in 1..Len(data) : Has(i, k) => IsInt(fields[i][lead + k])
      CellAt(i, k) ==
        IF ~Has(i, k) THEN NullCell
        ELSE IF Numeric(k) THEN IntCell(Strip(fields[i][lead + k]))
        ELSE StrCell(fields[i][lead + k])
  IN  Ok([cols |-> cols,
          rows |-> [i \in 1..Len(data) |-> [k \in 1..Len(cols) |-> CellAt(i, k)]]])

(* ------------------------------- state --------------------------------- *)
VARIABLES
  dfs,            \* DataManager.dfs: the loaded tables, in the order added
  paths,          \* DataManager.paths: their paths
  team_name,      \* DataManager.team_name
  output_folder,  \* config["output_folder"]
  file_cards,     \* per card: the text of its label and the table its preview shows
  global_preview, \* the table the global preview shows (NoDF when cleared)
  out_lbl,        \* the folder the output label shows (<<>>: "Not selected")
  btn_merge,      \* state of the START MERGE button
  threads,        \* the bag of the running worker threads
  started,        \* how many worker threads start_merge has started
  disk,           \* the names of the output files written so far
  lastOp,         \* the handler or worker step that ran last, and its outcome
  merged,         \* outcome of a direct merge_all call
  txt,            \* lines of a .txt file written by save
  reread,         \* outcome of read on that file
  pc              \* position of the direct-call harness

vars == <<dfs, paths, team_name, output_folder, file_cards, global_preview, out_lbl,
          btn_merge, threads, started, disk, lastOp, merged, txt, reread, pc>>

guiVars == <<output_folder, file_cards, global_preview, out_lbl, btn_merge,
             threads, started, disk, lastOp>>

harness == <<merged, txt, reread, pc>>

registry == <<dfs, paths, team_name>>

Cards == 0..(MAX_FILES - 1)

\* op: the handler; err: the exception add_file raised in it ("" when none);
\* shown: the title of the message box it showed last ("" when none)
Op(name, err, shown) == [op |-> name, err |-> err, shown |-> shown]

\* the state MergerGUI.__init__ leaves: an empty DataManager, the widgets as
\* _build_ui creates them, update_status run once
InitGui ==
  /\ output_folder = <<>>
  /\ file_cards = [i \in Cards |-> [lbl |-> <<>>, preview |-> NoDF]]
  /\ global_preview = NoDF
  /\ out_lbl = <<>>
  /\ btn_merge = "disabled"
  /\ threads = EmptyBag
  /\ started = 0
  /\ disk = {}
  /\ lastOp = Op("init", "", "")

InitHarness ==
  /\ merged = Ok(NoDF)
  /\ txt = <<>>
  /\ reread = Ok(NoDF)
  /\ pc = "idle"

(* ------------------ direct calls of merge_all on drawn tables ---------- *)
ID    == REQUIRED_COL
NAME  == <<"N">>
RATE  == <<"R">>

RowsOver(cellSets, n) ==
  LET Row == {r \in [1..Len(cellSets) -> UNION Range(cellSets)] :
                 \A k \in 1..Len(cellSets) : r[k] \in cellSets[k]}
  IN  UNION {[1..m -> Row] : m \in 0..n}

IdCells    == {IntCell(<<"1">>), IntCell(<<"2">>), StrCell(<<"a">>)}
OtherCells == {StrCell(<<"x">>), NullCell}

\* tables with an ID column and at most n rows
Tables(n) ==
  {[cols |-> <<ID>>, rows |-> r] : r \in RowsOver(<<IdCells>>, n)}
  \cup {[cols |-> <<ID, NAME>>, rows |-> r] : r \in RowsOver(<<IdCells, OtherCells>>, n)}
  \cup {[cols |-> <<NAME, ID>>, rows |-> r] : r \in RowsOver(<<OtherCells, IdCells>>, n)}
  \cup {[cols |-> <<ID, RATE>>, rows |-> r] : r \in RowsOver(<<IdCells, OtherCells>>, n)}

InitMerge ==
  /\ InitGui /\ InitHarness
  /\ \/ \E a \in Tables(MaxRows) : dfs = <<a>>
     \/ \E a \in Tables(MaxRows), b \in Tables(MaxRows - 1) : dfs = <<a, b>>
  /\ paths = <<>>
  /\ team_name = <<>>

CallMergeAll ==
  /\ pc = "idle"
  /\ merged' = merge_all(dfs)
  /\ pc' = "merged"
  /\ UNCHANGED <<registry, guiVars, txt, reread>>

NextMerge == CallMergeAll

SpecMerge == InitMerge /\ [][NextMerge]_vars

(* --------------- save's .txt file read back by read -------------------- *)
TxtTables(n) ==
  LET Ints == {IntCell(<<"1">>), IntCell(<<"2">>)}
      Mixed  == {StrCell(<<"x">>), IntCell(<<"7">>)}
      NonEmpty(rs) == {r \in rs : Len(r) > 0}
  IN  {[cols |-> <<ID>>, rows |-> r] : r \in NonEmpty(RowsOver(<<Ints>>, n))}
      \cup {[cols |-> <<ID, NAME>>, rows |-> r] : r \in NonEmpty(RowsOver(<<Ints, Mixed>>, n))}
      \cup {[cols |-> <<ID, NAME, RATE>>, rows |-> r] :
               r \in NonEmpty(RowsOver(<<Ints, Mixed, Mixed>>, n))}

InitTxt ==
  /\ InitGui /\ InitHarness
  /\ \E a \in TxtTables(MaxRows) : dfs = <<a>>
  /\ paths = <<>>
  /\ team_name = <<>>

\* lines 124 and 130-133 of save
SaveTxt ==
  /\ pc = "idle"
  /\ merged' = merge_all(dfs)
  /\ txt' = WriteTxt(merged'.df)
  /\ pc' = "saved"
  /\ UNCHANGED <<registry, guiVars, reread>>

\* read on the file save wrote
ReadBack ==
  /\ pc = "saved"
  /\ reread' = ReadTxt(txt)
  /\ pc' = "read"
  /\ UNCHANGED <<registry, guiVars, merged, txt>>

NextTxt == SaveTxt \/ ReadBack

SpecTxt == InitTxt /\ [][NextTxt]_vars

(* ------------------------- the files on disk --------------------------- *)
P_A == <<"d", "/", "A", ".", "j", "s", "o", "n">>
P_E == <<"d", "/">> \o SCRIPT_1 \o <<".", "J", "S", "O", "N">>
P_B == <<"d", "/", "B", ".", "t", "x", "t">>
P_Z == <<"d", "/", "z", ".", "x", "l", "s", "x">>
P_C == <<"d", "/", "c", ".", "c", "s", "v">>
P_M == <<"d", "/", "m", ".", "j", "s", "o", "n">>

\* what the file dialog can return when it is not cancelled
Paths == {P_A, P_E, P_B, P_Z, P_C, P_M}

T_A == [cols |-> <<ID, NAME>>,
        rows |-> << <<IntCell(<<"1">>), StrCell(<<"x">>)>>,
                    <<IntCell(<<"2">>), StrCell(<<"y">>)>> >>]
T_E == [cols |-> <<ID>>, rows |-> << <<IntCell(<<"2">>)>> >>]
L_B == << <<"N", " ", "|", " ", "R">>, <<"x", " ", "|", " ", "7">> >>

\* a file: whether it exists, and what it holds: a table (the sheet of an
\* .xlsx, the records of a .json), the lines of a text file, or garbage
NoFile       == [isfile |-> FALSE, kind |-> "none", table |-> NoDF, lines |-> <<>>]
TableFile(t) == [isfile |-> TRUE, kind |-> "table", table |-> t, lines |-> <<>>]
LinesFile(l) == [isfile |-> TRUE, kind |-> "lines", table |-> NoDF, lines |-> l]
Garbage      == [isfile |-> TRUE, kind |-> "garbage", table |-> NoDF, lines |-> <<>>]

\* A.json and SCRIPT_1_.JSON hold records with an ID; B.txt has no ID
\* column; z.xlsx is no workbook; c.csv exists; m.json does not
FileAt(path) ==
  CASE path = P_A -> TableFile(T_A)
    [] path = P_E -> TableFile(T_E)
    [] path = P_B -> LinesFile(L_B)
    [] path = P_Z -> Garbage
    [] path = P_C -> LinesFile(L_B)
    [] OTHER      -> NoFile

OUT_DIR  == <<"o", "u", "t">>
GONE_DIR == <<"g", "o", "n", "e">>

\* what the folder dialog can return when it is not cancelled: a directory,
\* or a typed name that is none
Folders == {OUT_DIR, GONE_DIR}

IsDir(folder) == folder = OUT_DIR

(* ---------------------------- DataManager ------------------------------ *)
\* pd.read_excel / pd.read_json on a file: its table, or a parse error,
\* which read turns into ValueError
ReadTable(file) ==
  IF file.kind = "table" THEN Ok(file.table) ELSE Raise("ValueError")

read(path) ==
  LET file == FileAt(path)
      ext  == Lower(SplitExt(path)[2])
  IN  IF ~file.isfile THEN Raise("FileNotFoundError")
      ELSE IF ext = <<".", "x", "l", "s", "x">> THEN ReadTable(file)
      ELSE IF ext = <<".", "j", "s", "o", "n">> THEN ReadTable(file)
      ELSE IF ext = <<".", "t", "x", "t">> THEN ReadTxt(file.lines)
      ELSE Raise("ValueError")

\* read, extract_team_name and os.path.basename on each path the dialog can
\* return, computed once
ReadOf == [p \in Paths |-> read(p)]
TeamOf == [p \in Paths |-> extract_team_name(p)]
BaseOf == [p \in Paths |-> Basename(p)]

Registry(err, d, p, t) == [err |-> err, dfs |-> d, paths |-> p, team_name |-> t]

\* add_file with the table appended before the ID column is looked for
add_file_append_first(d, p, t, path) ==
  LET r == ReadOf[path]
  IN  IF r.err # "" THEN Registry(r.err, d, p, t)
      ELSE IF REQUIRED_COL \notin Range(r.df.cols)
        THEN Registry("KeyError", Append(d, r.df), Append(p, path), t)
      ELSE Registry("", Append(d, r.df), Append(p, path),
                    IF t = <<>> THEN TeamOf[path] ELSE t)

\* add_file on the registry <<d, p, t>>: the exception raised, and the
\* registry it leaves
add_file(d, p, t, path) ==
  LET r == ReadOf[path]
  IN  IF r.err # "" THEN Registry(r.err, d, p, t)
      ELSE IF REQUIRED_COL \notin Range(r.df.cols) THEN Registry("KeyError", d, p, t)
      ELSE Registry("", Append(d, r.df), Append(p, path),
                    IF t = <<>> THEN TeamOf[path] ELSE t)

\* save with its directory check left out
SaveFolderUnchecked(folder) == TRUE

\* the directory check of save
SaveFolderOk(folder) == IsDir(folder)

(* ------------------------------ MergerGUI ------------------------------ *)
\* what preview_merge leaves when merge_all's outcome is m: the message box
\* it shows ("" when none) and the table the global preview holds
Previewed(m) ==
  IF m.err = "" THEN [shown |-> "", preview |-> DfHead(m.df)]
  ELSE [shown |-> "Preview Error", preview |-> global_preview]

preview_merge(d) == Previewed(merge_all(d))

\* the widgets update_status leaves for the registry d and the folder f,
\* pm being what its preview_merge left; op, err and shown tell the handler
\* it ends, the exception add_file raised in it and the box it showed
Refreshed(pm, d, f, op, err, shown) ==
  /\ btn_merge' = IF Len(d) >= 2 /\ f # <<>> THEN "normal" ELSE "disabled"
  /\ out_lbl' = f
  /\ global_preview' = pm.preview
  /\ lastOp' = Op(op, err, IF pm.shown # "" THEN pm.shown ELSE shown)

update_status(d, f, op, err, shown) ==
  Refreshed(IF Len(d) >= 2 THEN preview_merge(d)
            ELSE [shown |-> "", preview |-> global_preview],
            d, f, op, err, shown)

\* a cleared widget pair of a file card
BlankCard == [lbl |-> <<>>, preview |-> NoDF]

\* reset_all that leaves the paths in place
reset_all_keeps_paths ==
  /\ dfs' = <<>>
  /\ paths' = paths
  /\ team_name' = <<>>
  /\ file_cards' = [i \in Cards |-> BlankCard]
  /\ global_preview' = NoDF
  /\ UNCHANGED output_folder
  /\ btn_merge' = "disabled"
  /\ out_lbl' = output_folder
  /\ lastOp' = Op("reset_all", "", "")
  /\ UNCHANGED <<threads, started, disk, harness>>

\* choose_file when the dialog is cancelled: it returns at once
choose_file_cancel ==
  UNCHANGED vars

choose_file(idx, path) ==
  LET r == add_file(dfs, paths, team_name, path)
      labelled == [lbl |-> BaseOf[path], preview |-> NoDF]
      indexErr == idx + 1 > Len(r.dfs)
      shown == IF r.err # "" \/ indexErr THEN "Error" ELSE ""
  IN  /\ Len(dfs) < MaxEntries
      /\ dfs' = r.dfs
      /\ paths' = r.paths
      /\ team_name' = r.team_name
      /\ file_cards' =
           IF r.err # "" THEN file_cards
           ELSE IF indexErr THEN [file_cards EXCEPT ![idx] = labelled]
           ELSE [file_cards EXCEPT
                   ![idx] = [lbl |-> BaseOf[path], preview |-> DfHead(r.dfs[idx + 1])]]
      /\ update_status(r.dfs, output_folder, "choose_file", r.err, shown)
      /\ UNCHANGED <<output_folder, threads, started, disk, harness>>

choose_output(folder) ==
  /\ output_folder' = folder
  /\ update_status(dfs, folder, "choose_output", "", "")
  /\ UNCHANGED <<registry, file_cards, threads, started, disk, harness>>

\* choose_output when the dialog is cancelled
choose_output_cancel ==
  UNCHANGED vars

\* a worker thread: where it is in _do_merge and save, and the locals of
\* save that outlive a step: its folder argument and the team name in base
Thread(at, folder, team) == [pc |-> at, folder |-> folder, team |-> team]

start_merge ==
  /\ btn_merge = "normal"
  /\ started < MaxMerges
  /\ started' = started + 1
  /\ threads' = threads (+) SetToBag({Thread("merge", <<>>, <<>>)})
  /\ lastOp' = Op("start_merge", "", "")
  /\ UNCHANGED <<registry, output_folder, file_cards, global_preview, out_lbl,
                 btn_merge, disk, harness>>

reset_all ==
  /\ dfs' = <<>>
  /\ paths' = <<>>
  /\ team_name' = <<>>
  /\ file_cards' = [i \in Cards |-> BlankCard]
  /\ global_preview' = NoDF
  /\ UNCHANGED output_folder
  /\ btn_merge' = "disabled"
  /\ out_lbl' = output_folder
  /\ lastOp' = Op("reset_all", "", "")
  /\ UNCHANGED <<threads, started, disk, harness>>

(* ----------------- _do_merge, on its worker thread --------------------- *)
\* a step of a worker thread: `after` is the bag of threads it leaves, err
\* the exception raised in it, shown the message box _do_merge shows in it
Step(after, err, shown) ==
  /\ threads' = after
  /\ lastOp' = Op("worker", err, shown)
  /\ UNCHANGED <<registry, output_folder, file_cards, global_preview, out_lbl,
                 btn_merge, started, harness>>

\* the thread t moves on, to the position and locals of u
Goes(t, u) == Step((threads (-) SetToBag({t})) (+) SetToBag({u}), "", "")

\* the thread t ends
Ends(t, err, shown) == Step(threads (-) SetToBag({t}), err, shown)

\* an exception reaches the except clause of _do_merge (lines 309-313)
Failed(t, err) == Ends(t, err, "Failed")

\* lines 300-302: the first merge_all, whose table is not used
do_merge_merge(t) ==
  /\ t.pc = "merge"
  /\ UNCHANGED disk
  /\ LET m == merge_all(dfs)
     IN  IF m.err # "" THEN Failed(t, m.err)
         ELSE Goes(t, [t EXCEPT !.pc = "isdir"])

\* lines 304-305 and 122-123: save is called with the folder of the
\* configuration as it is now, and checks it
save_isdir(t) ==
  /\ t.pc = "isdir"
  /\ UNCHANGED disk
  /\ IF ~SaveFolderOk(output_folder)
     THEN Failed(t, "FileNotFoundError")
     ELSE Goes(t, [t EXCEPT !.pc = "save_merge", !.folder = output_folder])

\* line 124: the table that will be written
save_merge(t) ==
  /\ t.pc = "save_merge"
  /\ UNCHANGED disk
  /\ LET m == merge_all(dfs)
     IN  IF m.err # "" THEN Failed(t, m.err)
         ELSE Goes(t, [t EXCEPT !.pc = "base"])

\* lines 125-126: the basename, from team_name as it is now
save_base(t) ==
  /\ t.pc = "base"
  /\ UNCHANGED disk
  /\ Goes(t, [t EXCEPT !.pc = "write", !.team = team_name])

\* the names of the files Data_<team>_<date>.xlsx, .json and .txt in the
\* folder of thread t
FileNames(t) ==
  {[folder |-> t.folder, team |-> t.team, ext |-> e] : e \in {"xlsx", "json", "txt"}}

\* lines 127-133 write the three files from the locals of save; then lines
\* 306-308 and 311-313: the thread ends
save_write(t) ==
  /\ t.pc = "write"
  /\ disk' = disk \cup FileNames(t)
  /\ Ends(t, "", "Success")

Init ==
  /\ dfs = <<>>
  /\ paths = <<>>
  /\ team_name = <<>>
  /\ InitGui
  /\ InitHarness

Next ==
  \/ \E idx \in Cards, path \in Paths : choose_file(idx, path)
  \/ choose_file_cancel
  \/ \E folder \in Folders : choose_output(folder)
  \/ choose_output_cancel
  \/ start_merge
  \/ reset_all
  \/ \E t \in BagToSet(threads) : do_merge_merge(t)
  \/ \E t \in BagToSet(threads) : save_isdir(t)
  \/ \E t \in BagToSet(threads) : save_merge(t)
  \/ \E t \in BagToSet(threads) : save_base(t)
  \/ \E t \in BagToSet(threads) : save_write(t)

Spec == Init /\ [][Next]_vars

(* ------------------------------ claims --------------------------------- *)
IdSet(df) == Range(Column(df, IndexOf(df.cols, ID)))

Disjoint(a, b) == IdSet(a) \cap IdSet(b) = {}

KeyKindsClash(a, b) ==
  {KeyKind(a.rows, IndexOf(a.cols, ID)), KeyKind(b.rows, IndexOf(b.cols, ID))}
    = {"number", "string"}

\* the cells of row i of df from column `from` on are all null
NullFrom(df, i, from) == \A k \in from..Len(df.cols) : df.rows[i][k] = NullCell

\* the rows of df, cut to their first n cells, are the rows of a, in order
RowsOf(df, a) ==
  /\ Len(df.rows) = Len(a.rows)
  /\ \A i \in 1..Len(a.rows) : SubSeq(df.rows[i], 1, Len(a.cols)) = a.rows[i]

MergeSingleIsIdentity ==
  (pc = "merged" /\ Len(dfs) = 1) => merged = Ok(dfs[1])

MergeSingleWitness ==
  /\ pc = "merged" /\ Len(dfs) = 1
  /\ Len(dfs[1].cols) = 2 /\ Len(dfs[1].rows) = 2
  /\ merged.err = ""

\* C7: the table read back from the .txt file save wrote has the same column
\* names in the same order, as many rows, as many fields per row, and cells
\* whose str() is the str() of the cells written.
TxtRoundTrip ==
  pc = "read" =>
     /\ reread.err = ""
     /\ reread.df.cols = merged.df.cols
     /\ Len(reread.df.rows) = Len(merged.df.rows)
     /\ \A i \in 1..Len(merged.df.rows) :
           /\ Len(reread.df.rows[i]) = Len(merged.df.rows[i])
           /\ \A k \in 1..Len(merged.df.rows[i]) :
                 Str(reread.df.rows[i][k]) = Str(merged.df.rows[i][k])

\* a readable file whose table has no ID column
LacksId(path) == ReadOf[path].err = "" /\ ID \notin Range(ReadOf[path].df.cols)

\* C1: add_file on a file that lacks an "ID" column fails with KeyError
\* whatever the registry holds, and a choose_file step in which add_file
\* failed (file not found, unsupported format, read error, missing ID)
\* leaves dfs, paths and team_name as they were.
AddFileFailureLeavesRegistry ==
  /\ [](\A path \in Paths :
          LacksId(path) => add_file(dfs, paths, team_name, path).err = "KeyError")
  /\ [][(lastOp'.op = "choose_file" /\ lastOp'.err # "") => UNCHANGED registry]_vars

\* add_file has just failed on a file without ID, on a registry with an entry
AddFileFailureWitness ==
  /\ lastOp.op = "choose_file" /\ lastOp.err = "KeyError"
  /\ Len(dfs) > 0 /\ Len(paths) = Len(dfs) /\ team_name # <<>>

\* a step in which a worker thread runs the directory check of save
SaveCalled ==
  \E t \in BagToSet(threads) :
     t.pc = "isdir" /\ CopiesIn(t, threads') < CopiesIn(t, threads)

\* C2: save to a folder that is no directory raises FileNotFoundError
\* ("Invalid output folder.") before any write: that step leaves the disk
\* and the registry as they were, whatever the registry holds, and no output
\* file ever exists in such a folder.
SaveInvalidFolderWritesNothing ==
  /\ [](\A f \in disk : IsDir(f.folder))
  /\ [][(SaveCalled /\ ~IsDir(output_folder)) =>
          (lastOp'.err = "FileNotFoundError" /\ UNCHANGED <<registry, disk>>)]_vars

\* save has just failed on the folder that is none, the registry having
\* been emptied since the merge was started
SaveInvalidFolderWitness ==
  /\ lastOp.op = "worker" /\ lastOp.err = "FileNotFoundError"
  /\ output_folder = GONE_DIR
  /\ dfs = <<>>

\* C3: while a merge-and-save call is in flight on a worker thread, no step
\* changes dfs, paths or team_name (no add_file and no reset takes effect
\* until the call completes).
RegistryFrozenDuringMerge ==
  [][threads # EmptyBag => UNCHANGED registry]_vars

\* C5: whenever the registry is non-empty, team_name is the name extracted
\* from the first file added, paths[0], also when that name is empty.
TeamNameFromFirstFile ==
  Len(paths) > 0 => team_name = extract_team_name(paths[1])

\* C6: reset_all leaves dfs, paths and team_name empty from any state, and a
\* second reset_all right after the first changes nothing at all.
ResetClearsAndIsIdempotent ==
  [][lastOp'.op = "reset_all" =>
       /\ dfs' = <<>> /\ paths' = <<>> /\ team_name' = <<>>
       /\ lastOp.op = "reset_all" => UNCHANGED vars]_vars

\* reset_all has just run in a session that had files loaded and merged
ResetWitness ==
  /\ lastOp.op = "reset_all"
  /\ dfs = <<>> /\ paths = <<>> /\ team_name = <<>>
  /\ disk # {}

\* C9: after any sequence of file selections and resets the registry holds
\* at most MAX_FILES entries.
RegistryCapped == Len(dfs) <= MAX_FILES

\* C10: every card that shows a selected file has a registry entry at its
\* position, which is that file, and its preview is taken from that file's
\* table; and a choose_file that reports an error has added nothing to the
\* registry.
CardsMatchRegistry ==
  /\ [](\A idx \in Cards :
          file_cards[idx].lbl # <<>> =>
             /\ idx + 1 <= Len(paths)
             /\ Basename(paths[idx + 1]) = file_cards[idx].lbl
             /\ file_cards[idx].preview = DfHead(read(paths[idx + 1]).df))
  /\ [][(lastOp'.op = "choose_file" /\ lastOp'.shown = "Error") => UNCHANGED registry]_vars

====
